---- MODULE Spec2Model ----
(***************************************************************************)
(* shopmart-backend: order placement, order status lifecycle, the          *)
(* per-product stock count and the owner's cart, as implemented by the     *)
(* Express/Mongoose route handlers of the repository.                      *)
(*                                                                         *)
(* The repository holds three revisions of the order routes, all modelled: *)
(*   "orders"   src/unnamed/part_002 (router '/', '/admin/:id/status')      *)
(*   "routesA"  src/backend/routes/orderRoutes.js:1-164                    *)
(*   "routesB"  src/backend/routes/orderRoutes.js:166-751 ('/orders', ...) *)
(*                                                                         *)
(* A handler is an async function: the code between two awaits runs        *)
(* atomically on the single JavaScript thread, and every awaited database  *)
(* call is one atomic database operation.  One action of the model is one  *)
(* awaited database call together with the synchronous code that follows   *)
(* it up to the next await.                                                *)
(*                                                                         *)
(* src/backend/middleware/authMiddleware.js holds three revisions of       *)
(* protect and authorize ("mw1" lines 6-69, "mw2" 81-136, "mw3" 148-182);  *)
(* a request that passes through them carries the revision in use.         *)
(*                                                                         *)
(* Money is counted in thousandths of the currency unit, so that           *)
(* Number.toFixed(2) is a rounding to a multiple of 10.                    *)
(***************************************************************************)
EXTENDS Integers, Sequences, FiniteSets, TLC

\* ---------------------------------------------------------------- bounds
MaxStock == 3        \* initial stock of product A
MaxQty == 2          \* largest quantity of a cart line
MaxRequests == 3     \* requests handled in one behaviour

Products == {"A", "B"}
Users == {"u1", "u2", "u3"}
Procs == {"r1", "r2"}            \* request slots that can be in flight together
Undef == "undefined"
NoDoc == [exists |-> FALSE]

Variants == {"orders", "routesA", "routesB"}

VARIABLES
    products,   \* Product collection: productId -> document
    users,      \* User collection: userId -> document
    orders,     \* Order collection, in creation order; the index is the _id
    h,          \* per request slot: the handler's position and local variables
    nreq,       \* requests started so far
    credited,   \* history: per order, per line, number of restock writes made
    carts,      \* Cart collection: the cart documents, in creation order
    now         \* the clock (Date.now(), in milliseconds passed)

vars == <<products, users, orders, h, nreq, credited, carts, now>>

\* ------------------------------------------------------- pure functions

validStatusesWithReturned ==
    {"pending", "confirmed", "shipped", "delivered", "cancelled", "returned"}

\* const validStatuses = ['pending', 'confirmed', 'shipped', 'delivered', 'cancelled']
validStatuses == {"pending", "confirmed", "shipped", "delivered", "cancelled"}

\* Number.prototype.toFixed(2), cast back to Number by the schema.
ToFixed2(x) == IF x >= 0 THEN ((x + 5) \div 10) * 10 ELSE 0 - (((0 - x) + 5) \div 10) * 10

RECURSIVE LineSum(_)
LineSum(items) ==
    IF items = <<>> THEN 0
    ELSE Head(items).price * Head(items).quantity + LineSum(Tail(items))

\* Quantity of product pid over the lines of an order.
RECURSIVE QtyOf(_, _)
QtyOf(items, pid) ==
    IF items = <<>> THEN 0
    ELSE (IF Head(items).productId = pid THEN Head(items).quantity ELSE 0)
         + QtyOf(Tail(items), pid)

InsufficientStockOffByOne(stock, quantity) == stock + 1 < quantity

\* if (product.stock < item.quantity)
InsufficientStock(stock, quantity) == stock < quantity

EmptyCartNever(cartItems) == FALSE

\* if (!cartItems || cartItems.length === 0)
\* (a missing cartItems is the empty list here)
EmptyCart(cartItems) == Len(cartItems) = 0

\* if (!shippingAddress || shippingAddress === 'N/A')
MissingShippingAddress(address) == address = Undef \/ address = "" \/ address = "N/A"

LineTotalNoQuantity(price, quantity) == price

\* totalAmount += product.price * item.quantity
LineTotal(price, quantity) == price * quantity

\* orderSchema validators run by newOrder.save()
ValidOrder(o) ==
    /\ \A k \in 1..Len(o.items) :
          /\ o.items[k].quantity >= 1
          /\ o.items[k].price >= 0
    /\ o.totalAmount >= 0
    /\ o.paymentMethod \notin {Undef, ""}
    /\ o.shippingAddress \notin {Undef, ""}

\* the status code sent with each kind of response
Code(kind) ==
    CASE kind \in {"Created"} -> 201
      [] kind \in {"OK"} -> 200
      [] kind \in {"UserNotFound", "NotFound", "OrderNotFound", "CartNotFound",
                   "ItemNotFound"} -> 404
      [] kind \in {"EmptyCart", "MissingShippingAddress", "InsufficientStock",
                   "MissingFields", "InvalidStatus", "InvalidTransition",
                   "NegativeQuantity", "UserExists", "InvalidRole"} -> 400
      [] kind \in {"Unauthorized"} -> 401
      [] kind \in {"Forbidden"} -> 403
      [] OTHER -> 500

\* ------------------------------------------------------------- requests

\* a line of req.body.cartItems: the handlers read productId and quantity; the
\* name and the price the caller sends along are its own
Line(pid, q) == [productId |-> pid, quantity |-> q, name |-> "caller", price |-> 1]

Lines == {Line(x, q) : x \in Products, q \in 0..MaxQty}

\* the empty cart, every one-line cart, and the two-line carts whose first line
\* is one unit of A
cartItemsSets ==
    {<<>>} \cup {<<l>> : l \in Lines}
    \cup {<<Line("A", 1), l>> : l \in Lines}

\* u1 has a registered address and sends another one; u2 has none ('N/A') and
\* sends none
PlaceRequests(cartSets) ==
    [op : {"place"}, variant : Variants, user : {"u1"}, paymentMethod : {"COD"},
     shippingAddress : {"street 2"}, cartItems : cartSets]

PlaceRequestsNoAddress(cartSets) ==
    [op : {"place"}, variant : Variants, user : {"u2"}, paymentMethod : {"COD"},
     shippingAddress : {Undef}, cartItems : cartSets]

\* the stored orders and one id that names no order
StatusRequests(statuses) ==
    [op : {"status"}, variant : Variants, id : 1..(Len(orders) + 1), status : statuses]

\* has: the fields the request body defines
UpdateRequests ==
    [op : {"update"}, id : {"A"}, has : {{"name", "price"}, {"stock"}},
     name : {"n2"}, price : {1000}, stock : {0}]

DeleteRequests == [op : {"delete"}, id : {"B"}]

\* GET /api/orders of a caller, GET /api/orders/admin
ListRequests == [op : {"list"}, user : {"u1", "u2"}, admin : BOOLEAN]

\* POST /api/auth/register with the email of u
RegisterRequests(u) == [op : {"register"}, user : {u}, address : {"street 3"}]

\* PUT /api/auth/users/:id/role and DELETE /api/auth/users/:id
RoleRequests == [op : {"role"}, id : {"u1", "u2"}, role : {"user", "admin", Undef}]

DeleteUserRequests == [op : {"deleteUser"}, id : {"u1", "u2"}]

Middlewares == {"mw1", "mw2", "mw3"}

Headers == {"none", "Bearer", "invalid", "expired", "valid"}

\* what a request brings to protect: the Authorization header (a token is
\* valid, invalid or expired), the user the token names, whether JWT_SECRET is
\* set, and the revision of authMiddleware.js in use
Auths ==
    [mw : Middlewares, header : Headers, secret : {TRUE}, caller : {"u1"}]
    \cup [mw : Middlewares, header : {"Bearer", "valid"}, secret : {FALSE}, caller : {"u1"}]
    \cup [mw : Middlewares, header : {"valid"}, secret : {TRUE}, caller : Users]

\* valid tokens on a configured server
ValidAuths == [mw : Middlewares, header : {"valid"}, secret : {TRUE}, caller : Users]

\* valid tokens of the first two users on a configured server
AdminAuths == [mw : {"mw1"}, header : {"valid"}, secret : {TRUE}, caller : {"u1", "u2"}]

CartVariants == {"part004", "cartRoutes"}

\* POST /api/cart, PUT /api/cart/:productId, DELETE /api/cart/:productId and
\* DELETE /api/cart/clear of owner u
CartRequests(u, methods, quantities) ==
    [op : {"cart"}, variant : CartVariants, method : methods, user : {u},
     productId : Products, quantity : quantities]

Idle ==
    [pc |-> "idle", req |-> [op |-> "none"], i |-> 0, product |-> NoDoc,
     orderProducts |-> <<>>, totalAmount |-> 0, shippingAddress |-> Undef,
     order |-> NoDoc, cart |-> <<>>, cartId |-> 0, listing |-> <<>>, resp |-> "none",
     stock0 |-> [x \in Products |-> 0], orders0 |-> <<>>,
     carts0 |-> <<>>,
     auth |-> [mw |-> "none"], sent |-> <<>>, nexts |-> 0, reqUser |-> NoDoc,
     target |-> NoDoc]

Active(p) == h[p].pc \notin {"idle", "done"}

ReturnFallThrough(rec, kind) ==
    IF kind = "EmptyCart"
    THEN [rec EXCEPT !.pc = "saveOrder", !.resp = kind]
    ELSE [rec EXCEPT !.pc = "done", !.resp = kind]

\* return res.status(...).json(...): the handler ends with that response
Return(rec, kind) == [rec EXCEPT !.pc = "done", !.resp = kind]

\* ------------------------------------------------------ request arrival

\* protect has found the caller (req.user exists) and the handler runs its
\* synchronous prefix, up to its first await.
Begin(p, r) ==
    LET rec == [Idle EXCEPT !.pc = "run", !.req = r,
                            !.stock0 = [x \in Products |-> products[x].stock],
                            !.orders0 = orders, !.carts0 = carts]
    IN  CASE r.op = "place" ->
               IF r.variant = "routesB"
                  /\ (r.paymentMethod \in {Undef, ""} \/ r.shippingAddress \in {Undef, ""}
                      \/ EmptyCart(r.cartItems))
               THEN Return(rec, "MissingFields")
               ELSE [rec EXCEPT !.pc = "findUser"]
          [] r.op = "status" ->
               IF r.variant = "routesB" /\ r.status \notin validStatuses
               THEN Return(rec, "InvalidStatus")
               ELSE [rec EXCEPT !.pc = "findOrder"]
          [] r.op = "update" -> [rec EXCEPT !.pc = "findForUpdate"]
          [] r.op = "delete" -> [rec EXCEPT !.pc = "findForDelete"]
          [] r.op = "cart" ->
               IF r.variant = "part004" /\ r.method = "put" /\ r.quantity < 0
               THEN Return(rec, "NegativeQuantity")
               ELSE [rec EXCEPT !.pc = "findCart"]
          [] r.op = "list" -> [rec EXCEPT !.pc = "findOrders"]
          [] r.op = "register" -> [rec EXCEPT !.pc = "findOneUser"]
          [] r.op = "role" ->
               IF r.role \notin {"user", "admin"} THEN Return(rec, "InvalidRole")
               ELSE [rec EXCEPT !.pc = "findTarget"]
          [] r.op = "deleteUser" -> [rec EXCEPT !.pc = "findTarget"]

Start(p, r) ==
    /\ ~Active(p)
    /\ nreq < MaxRequests
    /\ r.op \in {"place", "cart"} => users[r.user].exists
    /\ nreq' = nreq + 1
    /\ h' = [h EXCEPT ![p] = Begin(p, r)]
    /\ UNCHANGED <<products, users, orders, credited, carts, now>>

\* ------------------------------------------------------ order placement

\* const user = await User.findById(userId), and the checks before the loop
FindUser(p) ==
    LET rec == h[p]
        r == rec.req
        user == users[r.user]
        addr == IF r.variant = "routesB" THEN r.shippingAddress ELSE user.address
        withAddr == [rec EXCEPT !.shippingAddress = addr]
    IN  /\ rec.pc = "findUser"
        /\ h' = [h EXCEPT ![p] =
                   IF ~user.exists THEN Return(rec, "UserNotFound")
                   ELSE IF r.variant = "orders" /\ MissingShippingAddress(user.address)
                        THEN Return(withAddr, "MissingShippingAddress")
                   ELSE IF r.variant # "routesB" /\ EmptyCart(r.cartItems)
                        THEN Return(withAddr, "EmptyCart")
                   ELSE [withAddr EXCEPT !.i = 1,
                            !.pc = IF Len(r.cartItems) > 0 THEN "findProduct"
                                   ELSE "saveOrder"]]
        /\ UNCHANGED <<products, users, orders, nreq, credited, carts, now>>

SnapshotFromCaller(item, product) ==
    [productId |-> item.productId, name |-> item.name,
     quantity |-> item.quantity, price |-> item.price]

\* orderProducts.push({productId: item.productId, name: product.name,
\*                     quantity: item.quantity, price: product.price, ...})
Snapshot(item, product) ==
    [productId |-> item.productId, name |-> product.name,
     quantity |-> item.quantity, price |-> product.price]

\* const product = await Product.findById(item.productId), the two checks and
\* product.stock -= item.quantity on the local document
FindProduct(p) ==
    LET rec == h[p]
        r == rec.req
        item == r.cartItems[rec.i]
        doc == products[item.productId]
        snapshot == Snapshot(item, doc)
    IN  /\ rec.pc = "findProduct"
        /\ h' = [h EXCEPT ![p] =
                   IF ~doc.exists THEN Return(rec, "NotFound")
                   ELSE IF InsufficientStock(doc.stock, item.quantity)
                        THEN Return(rec, "InsufficientStock")
                   ELSE IF r.variant = "routesB"
                        THEN [rec EXCEPT !.pc = "saveProduct", !.product = doc,
                                 !.orderProducts = Append(@, snapshot),
                                 !.totalAmount = @ + LineTotal(doc.price, item.quantity)]
                   ELSE [rec EXCEPT !.pc = "saveProduct", !.product = doc]]
        /\ UNCHANGED <<products, users, orders, nreq, credited, carts, now>>

\* await product.save(): writes the modified path stock ($set) of the document
\* read by FindProduct; throws when the document is gone.  Then the snapshot is
\* pushed and the total accumulated.
SaveProduct(p) ==
    LET rec == h[p]
        r == rec.req
        item == r.cartItems[rec.i]
        id == item.productId
        modified == item.quantity # 0
        thrown == modified /\ ~products[id].exists
        snapshot == Snapshot(item, rec.product)
        pushed == IF r.variant = "routesB" THEN rec
                  ELSE [rec EXCEPT !.orderProducts = Append(@, snapshot),
                           !.totalAmount = @ + LineTotal(rec.product.price, item.quantity)]
    IN  /\ rec.pc = "saveProduct"
        /\ products' = IF modified /\ ~thrown
                       THEN [products EXCEPT ![id].stock = rec.product.stock - item.quantity]
                       ELSE products
        /\ h' = [h EXCEPT ![p] =
                   IF thrown THEN Return(rec, "ServerError")
                   ELSE [pushed EXCEPT !.i = @ + 1,
                            !.pc = IF rec.i < Len(r.cartItems) THEN "findProduct"
                                   ELSE "saveOrder"]]
        /\ UNCHANGED <<users, orders, nreq, credited, carts, now>>

\* new Order({...}) and await newOrder.save(); the schema's timestamps option
\* sets createdAt when the document is saved
SaveOrder(p) ==
    LET rec == h[p]
        r == rec.req
        newOrder == [userId |-> r.user, items |-> rec.orderProducts,
                     totalAmount |-> IF r.variant = "routesB" THEN rec.totalAmount
                                     ELSE ToFixed2(rec.totalAmount),
                     paymentMethod |-> r.paymentMethod,
                     shippingAddress |-> rec.shippingAddress,
                     status |-> "pending",
                     createdAt |-> now]
        \* only the first response of a request reaches the client
        answer(kind) == IF rec.resp = "none" THEN kind ELSE rec.resp
    IN  /\ rec.pc = "saveOrder"
        /\ IF ValidOrder(newOrder)
           THEN /\ orders' = Append(orders, newOrder)
                /\ credited' = Append(credited, [k \in 1..Len(newOrder.items) |-> 0])
                /\ h' = [h EXCEPT ![p] =
                           IF r.variant = "routesA"
                           THEN [rec EXCEPT !.pc = "done", !.resp = answer("Created")]
                           ELSE [rec EXCEPT !.pc = "saveUser"]]
           ELSE /\ h' = [h EXCEPT ![p] =
                           [rec EXCEPT !.pc = "done", !.resp = answer("ServerError")]]
                /\ UNCHANGED <<orders, credited>>
        /\ UNCHANGED <<products, users, nreq, carts, now>>

\* user.cart = []; await user.save(); res.status(201)
\* (userSchema of models/User.js declares no cart path: nothing is written)
SaveUser(p) ==
    LET rec == h[p]
    IN  /\ rec.pc = "saveUser"
        /\ h' = [h EXCEPT ![p] =
                   [rec EXCEPT !.pc = "done",
                               !.resp = IF @ = "none" THEN "Created" ELSE @]]
        /\ UNCHANGED <<products, users, orders, nreq, credited, carts, now>>

\* ------------------------------------------------------- status update

ReversesStockAlways(variant, requested, current) ==
    variant = "orders" /\ requested = "cancelled"

\* if (status === 'cancelled' && order.status !== 'cancelled'): the reversal
\* loop, which only the handler of part_002 has
ReversesStock(variant, requested, current) ==
    variant = "orders" /\ requested = "cancelled" /\ current # "cancelled"

\* const order = await Order.findById(id) and the checks before the writes
FindOrder(p) ==
    LET rec == h[p]
        r == rec.req
        order == orders[r.id]
        loaded == [rec EXCEPT !.order = [exists |-> TRUE, status |-> order.status,
                                         items |-> order.items]]
    IN  /\ rec.pc = "findOrder"
        /\ h' = [h EXCEPT ![p] =
                   IF r.id > Len(orders) THEN Return(rec, "OrderNotFound")
                   ELSE IF r.status \notin validStatuses
                        THEN Return(loaded, "InvalidStatus")
                   ELSE IF ReversesStock(r.variant, r.status, order.status)
                        THEN [loaded EXCEPT !.i = 1,
                                 !.pc = IF Len(order.items) > 0 THEN "findRestock"
                                        ELSE "saveStatus"]
                   ELSE IF r.variant = "orders" /\ order.status = "cancelled"
                           /\ r.status # "cancelled"
                        THEN Return(loaded, "InvalidTransition")
                   ELSE [loaded EXCEPT !.pc = "saveStatus"]]
        /\ UNCHANGED <<products, users, orders, nreq, credited, carts, now>>

\* const product = await Product.findById(item.productId) of the reversal loop;
\* a missing product is skipped with a warning
FindRestock(p) ==
    LET rec == h[p]
        item == rec.order.items[rec.i]
        doc == products[item.productId]
    IN  /\ rec.pc = "findRestock"
        /\ h' = [h EXCEPT ![p] =
                   IF doc.exists THEN [rec EXCEPT !.pc = "saveRestock", !.product = doc]
                   ELSE [rec EXCEPT !.i = @ + 1,
                            !.pc = IF rec.i < Len(rec.order.items) THEN "findRestock"
                                   ELSE "saveStatus"]]
        /\ UNCHANGED <<products, users, orders, nreq, credited, carts, now>>

\* product.stock += item.quantity
Restocked(stock, quantity) == stock + quantity

\* await product.save() of the reversal loop
SaveRestock(p) ==
    LET rec == h[p]
        r == rec.req
        item == rec.order.items[rec.i]
        id == item.productId
        thrown == ~products[id].exists
    IN  /\ rec.pc = "saveRestock"
        /\ products' = IF thrown THEN products
                       ELSE [products EXCEPT
                               ![id].stock = Restocked(rec.product.stock, item.quantity)]
        /\ credited' = IF thrown THEN credited
                       ELSE [credited EXCEPT ![r.id][rec.i] = @ + 1]
        /\ h' = [h EXCEPT ![p] =
                   IF thrown THEN Return(rec, "ServerError")
                   ELSE [rec EXCEPT !.i = @ + 1,
                            !.pc = IF rec.i < Len(rec.order.items) THEN "findRestock"
                                   ELSE "saveStatus"]]
        /\ UNCHANGED <<users, orders, nreq, carts, now>>

StatusModifiedNever(loaded, requested) == FALSE

\* order.status = status marks the path status modified when the value differs
\* from the loaded one
StatusModified(loaded, requested) == loaded # requested

\* order.status = status; await order.save(): writes the path status when the
\* assignment changed the loaded document.  The handler then re-reads the order
\* for the response body and answers 200.
SaveStatus(p) ==
    LET rec == h[p]
        r == rec.req
    IN  /\ rec.pc = "saveStatus"
        /\ orders' = IF StatusModified(rec.order.status, r.status)
                     THEN [orders EXCEPT ![r.id].status = r.status]
                     ELSE orders
        /\ h' = [h EXCEPT ![p] = Return(rec, "OK")]
        /\ UNCHANGED <<products, users, nreq, credited, carts, now>>

\* ------------------------------------------------- product update, delete

\* const product = await Product.findById(req.params.id) of PUT /:id
FindForUpdate(p) ==
    LET rec == h[p]
        doc == products[rec.req.id]
    IN  /\ rec.pc = "findForUpdate"
        /\ h' = [h EXCEPT ![p] =
                   IF ~doc.exists THEN Return(rec, "NotFound")
                   ELSE [rec EXCEPT !.pc = "saveUpdate", !.product = doc]]
        /\ UNCHANGED <<products, users, orders, nreq, credited, carts, now>>

\* product.name = name || product.name; ...; await product.save(): writes the
\* paths whose value the assignments changed
SaveUpdate(p) ==
    LET rec == h[p]
        r == rec.req
        id == r.id
        old == rec.product
        cur == products[id]
        name == IF "name" \in r.has /\ r.name # old.name THEN r.name ELSE cur.name
        price == IF "price" \in r.has /\ r.price # old.price THEN r.price ELSE cur.price
        stock == IF "stock" \in r.has /\ r.stock # old.stock THEN r.stock ELSE cur.stock
        modified == name # cur.name \/ price # cur.price \/ stock # cur.stock
                    \/ ("name" \in r.has /\ r.name # old.name)
                    \/ ("price" \in r.has /\ r.price # old.price)
                    \/ ("stock" \in r.has /\ r.stock # old.stock)
        thrown == modified /\ ~cur.exists
    IN  /\ rec.pc = "saveUpdate"
        /\ products' = IF thrown THEN products
                       ELSE [products EXCEPT ![id].name = name, ![id].price = price,
                                             ![id].stock = stock]
        /\ h' = [h EXCEPT ![p] = Return(rec, IF thrown THEN "ServerError" ELSE "OK")]
        /\ UNCHANGED <<users, orders, nreq, credited, carts, now>>

\* const product = await Product.findById(req.params.id) of DELETE /:id
FindForDelete(p) ==
    LET rec == h[p]
        doc == products[rec.req.id]
    IN  /\ rec.pc = "findForDelete"
        /\ h' = [h EXCEPT ![p] =
                   IF ~doc.exists THEN Return(rec, "NotFound")
                   ELSE [rec EXCEPT !.pc = "deleteOne"]]
        /\ UNCHANGED <<products, users, orders, nreq, credited, carts, now>>

\* await product.deleteOne()
DeleteOne(p) ==
    LET rec == h[p]
    IN  /\ rec.pc = "deleteOne"
        /\ products' = [products EXCEPT ![rec.req.id].exists = FALSE]
        /\ h' = [h EXCEPT ![p] = Return(rec, "OK")]
        /\ UNCHANGED <<users, orders, nreq, credited, carts, now>>

\* ------------------------------------------------------- order listings

NewerAscending(a, b) == a.createdAt <= b.createdAt

\* .sort({ createdAt: -1 }): a may stand before b
Newer(a, b) == a.createdAt >= b.createdAt

\* the orders of Order.find({ userId }), of Order.find() for the administrator
Found(r) == {o \in 1..Len(orders) : r.admin \/ orders[o].userId = r.user}

\* the results the sorted query can deliver: orders with the same createdAt
\* come in any order
Sorted(S) ==
    {l \in [1..Cardinality(S) -> S] :
        /\ \A i \in 1..Cardinality(S) : \A j \in 1..Cardinality(S) :
              i # j => l[i] # l[j]
        /\ \A i \in 1..Cardinality(S) : \A j \in (i + 1)..Cardinality(S) :
              Newer(orders[l[i]], orders[l[j]])}

\* const orders = await Order.find(...).sort({ createdAt: -1 }); res.json(orders)
ListOrders(p) ==
    LET rec == h[p]
    IN  /\ rec.pc = "findOrders"
        /\ \E l \in Sorted(Found(rec.req)) :
              h' = [h EXCEPT ![p] = [rec EXCEPT !.pc = "done", !.resp = "OK",
                                                !.listing = l]]
        /\ UNCHANGED <<products, users, orders, nreq, credited, carts, now>>

\* a millisecond passes
Tick ==
    /\ now < MaxRequests
    /\ now' = now + 1
    /\ UNCHANGED <<products, users, orders, h, nreq, credited, carts>>

\* ---------------------------------------------------------------- carts

\* the Cart documents of owner u
CartsOf(u) == {k \in 1..Len(carts) : carts[k].userId = u}

\* Cart.findOne({ userId }): the first document of the owner, 0 when none
FindOneCart(u) ==
    IF CartsOf(u) = {} THEN 0
    ELSE CHOOSE k \in CartsOf(u) : \A j \in CartsOf(u) : k <= j

\* GET /api/cart: the items of the owner's Cart document, or none
GetCart(u) == IF FindOneCart(u) = 0 THEN <<>> ELSE carts[FindOneCart(u)].items

UniqueUserIdNotEnforced(u) == TRUE

\* userId: { unique: true }: the index admits a new document of owner u
UniqueUserId(u) == CartsOf(u) = {}

\* index of product pid in the cart lines, 0 when absent (findIndex)
FindIndex(items, pid) ==
    IF \E k \in 1..Len(items) : items[k].productId = pid
    THEN CHOOSE k \in 1..Len(items) :
            /\ items[k].productId = pid
            /\ \A j \in 1..(k - 1) : items[j].productId # pid
    ELSE 0

\* cart.items.splice(k, 1)
Splice(items, k) ==
    [j \in 1..(Len(items) - 1) |-> IF j < k THEN items[j] ELSE items[j + 1]]

\* cart.items.filter(item => item.productId.toString() !== productId)
RECURSIVE Without(_, _)
Without(items, pid) ==
    IF items = <<>> THEN <<>>
    ELSE IF Head(items).productId = pid THEN Without(Tail(items), pid)
    ELSE <<Head(items)>> \o Without(Tail(items), pid)

\* let cart = await Cart.findOne({ userId }) of the four cart handlers, and the
\* synchronous code up to the next await
FindCart(p) ==
    LET rec == h[p]
        r == rec.req
        id == FindOneCart(r.user)
        items == IF id = 0 THEN <<>> ELSE carts[id].items
        found == [rec EXCEPT !.cartId = id, !.cart = items]
        k == FindIndex(items, r.productId)
        \* cartRoutes.js registers DELETE /clear after DELETE /:productId, which
        \* therefore handles it with productId 'clear'
        removal == r.method = "remove" \/ (r.method = "clear" /\ r.variant = "cartRoutes")
        pid == IF r.method = "clear" THEN "clear" ELSE r.productId
    IN  /\ rec.pc = "findCart"
        /\ h' = [h EXCEPT ![p] =
                   IF r.method = "add"
                   THEN [found EXCEPT !.pc = "findCartProduct"]
                   ELSE IF r.method = "clear" /\ r.variant = "part004"
                   THEN (IF id = 0 THEN Return(found, "OK")
                         ELSE [found EXCEPT !.pc = "saveCart", !.cart = <<>>])
                   ELSE IF id = 0 THEN Return(found, "CartNotFound")
                   ELSE IF removal
                   THEN (IF Without(items, pid) = items THEN Return(found, "ItemNotFound")
                         ELSE [found EXCEPT !.pc = "saveCart", !.cart = Without(items, pid)])
                   ELSE IF k = 0 THEN Return(found, "ItemNotFound")
                   ELSE IF r.variant = "part004" THEN [found EXCEPT !.pc = "findCartProduct"]
                   ELSE IF r.quantity <= 0
                   THEN [found EXCEPT !.pc = "saveCart", !.cart = Splice(items, k)]
                   ELSE [found EXCEPT !.pc = "saveCart", !.cart[k].quantity = r.quantity]]
        /\ UNCHANGED <<products, users, orders, nreq, credited, carts, now>>

\* const product = await Product.findById(productId) of POST / and of PUT
\* /:productId of part_004, the stock checks and the change of the local cart
FindCartProduct(p) ==
    LET rec == h[p]
        r == rec.req
        doc == products[r.productId]
        k == FindIndex(rec.cart, r.productId)
        checked == r.variant = "part004"
        newQuantity == IF k > 0 THEN rec.cart[k].quantity + r.quantity ELSE r.quantity
        line == [productId |-> r.productId, name |-> doc.name, price |-> doc.price,
                 quantity |-> r.quantity]
    IN  /\ rec.pc = "findCartProduct"
        /\ h' = [h EXCEPT ![p] =
                   IF ~doc.exists THEN Return(rec, "NotFound")
                   ELSE IF r.method = "put"
                   THEN (IF r.quantity = 0
                         THEN [rec EXCEPT !.pc = "saveCart", !.cart = Splice(@, k)]
                         ELSE IF r.quantity > doc.stock
                         THEN Return(rec, "InsufficientStock")
                         ELSE [rec EXCEPT !.pc = "saveCart", !.cart[k].quantity = r.quantity])
                   ELSE IF checked /\ newQuantity > doc.stock
                   THEN Return(rec, "InsufficientStock")
                   ELSE IF k > 0
                   THEN [rec EXCEPT !.pc = "saveCart", !.cart[k].quantity = newQuantity]
                   ELSE [rec EXCEPT !.pc = "saveCart", !.cart = Append(@, line)]]
        /\ UNCHANGED <<products, users, orders, nreq, credited, carts, now>>

\* await cart.save() (Cart.create for a new cart in cartRoutes.js): a new
\* document is inserted unless the unique index on userId rejects it, an
\* existing one gets its items written
SaveCart(p) ==
    LET rec == h[p]
        r == rec.req
        isNew == rec.cartId = 0
        thrown == isNew /\ ~UniqueUserId(r.user)
    IN  /\ rec.pc = "saveCart"
        /\ carts' = IF thrown THEN carts
                    ELSE IF isNew
                    THEN Append(carts, [userId |-> r.user, items |-> rec.cart])
                    ELSE [carts EXCEPT ![rec.cartId].items = rec.cart]
        /\ h' = [h EXCEPT ![p] = Return(rec, IF thrown THEN "ServerError" ELSE "OK")]
        /\ UNCHANGED <<products, users, orders, nreq, credited, now>>

\* --------------------------------------------------------- registration

\* const userExists = await User.findOne({ email })
FindOneUser(p) ==
    LET rec == h[p]
    IN  /\ rec.pc = "findOneUser"
        /\ h' = [h EXCEPT ![p] =
                   IF users[rec.req.user].exists THEN Return(rec, "UserExists")
                   ELSE [rec EXCEPT !.pc = "saveNewUser"]]
        /\ UNCHANGED <<products, users, orders, nreq, credited, carts, now>>

\* await user.save() of the new user with role 'user'; the unique index on
\* email rejects a second document
SaveNewUser(p) ==
    LET rec == h[p]
        r == rec.req
        thrown == users[r.user].exists
    IN  /\ rec.pc = "saveNewUser"
        /\ users' = IF thrown THEN users
                    ELSE [users EXCEPT ![r.user] =
                            [exists |-> TRUE, address |-> r.address, role |-> "user"]]
        /\ h' = [h EXCEPT ![p] =
                   IF thrown THEN Return(rec, "ServerError")
                   ELSE [rec EXCEPT !.pc = "createCart"]]
        /\ UNCHANGED <<products, orders, nreq, credited, carts, now>>

\* await Cart.create({ userId: user._id, items: [] }); res.status(201)
CreateCart(p) ==
    LET rec == h[p]
        r == rec.req
        thrown == ~UniqueUserId(r.user)
    IN  /\ rec.pc = "createCart"
        /\ carts' = IF thrown THEN carts
                    ELSE Append(carts, [userId |-> r.user, items |-> <<>>])
        /\ h' = [h EXCEPT ![p] = Return(rec, IF thrown THEN "ServerError" ELSE "Created")]
        /\ UNCHANGED <<products, users, orders, nreq, credited, now>>

\* one step of a registration in slot p
RegisterStep(p) ==
    \/ FindOneUser(p)
    \/ SaveNewUser(p)
    \/ CreateCart(p)

\* one step of a placement in slot p
PlaceStep(p) ==
    \/ FindUser(p)
    \/ FindProduct(p)
    \/ SaveProduct(p)
    \/ SaveOrder(p)
    \/ SaveUser(p)

\* one step of a cart handler in slot p
CartStep(p) ==
    \/ FindCart(p)
    \/ FindCartProduct(p)
    \/ SaveCart(p)

\* one step of a status update in slot p
StatusStep(p) ==
    \/ FindOrder(p)
    \/ FindRestock(p)
    \/ SaveRestock(p)
    \/ SaveStatus(p)

\* one step of the handler in slot p
Step(p) ==
    \/ PlaceStep(p)
    \/ StatusStep(p)
    \/ FindForUpdate(p)
    \/ SaveUpdate(p)
    \/ FindForDelete(p)
    \/ DeleteOne(p)

\* ------------------------------------------------------- authentication

\* jwt.verify(token, process.env.JWT_SECRET) with the checks before it:
\* "none" when the header is missing or not a Bearer header, "Error" for the
\* thrown Error of an unset JWT_SECRET, the name of the error jwt.verify
\* throws, or "ok".  A 'Bearer' header without a token part gives an undefined
\* token, for which jwt.verify throws JsonWebTokenError.
Verify(a) ==
    IF a.header = "none" THEN "none"
    ELSE IF a.mw # "mw3" /\ ~a.secret THEN "Error"
    ELSE IF a.header = "Bearer" \/ a.header = "invalid" THEN "JsonWebTokenError"
    ELSE IF ~a.secret THEN "JsonWebTokenError"
    ELSE IF a.header = "expired" THEN "TokenExpiredError"
    ELSE "ok"

\* the responses protect sends before its await, in order: the catch block's,
\* then the one of the trailing if (!token) of the later revisions
SentBeforeAwait(a) ==
    LET v == Verify(a)
        noToken == a.header = "Bearer"
    IN  IF v = "none" THEN <<401>>
        ELSE IF v = "ok" THEN <<>>
        ELSE IF a.mw = "mw1" THEN <<401>>
        ELSE IF a.mw = "mw2"
        THEN (IF v = "Error" THEN (IF noToken THEN <<500, 401>> ELSE <<500>>)
              ELSE <<401>>)
        ELSE (IF noToken THEN <<401, 401>> ELSE <<401>>)

AuthorizedAnyRole(user, roles) == TRUE

\* authorize(...roles): roles.includes(req.user.role)
Authorized(user, roles) == user.role \in roles

\* the routes registered with authorize('admin')
AdminRoute(r) == r.op \in {"status", "role", "deleteUser"}

\* the response kind of a status code sent by the middleware
Denied(code) ==
    IF code = 401 THEN "Unauthorized" ELSE IF code = 403 THEN "Forbidden" ELSE "ServerError"

\* a request arrives at protect, which runs up to its await User.findById
Arrive(p, r, a) ==
    LET rec == [Idle EXCEPT !.req = r, !.auth = a,
                            !.stock0 = [x \in Products |-> products[x].stock],
                            !.orders0 = orders, !.carts0 = carts]
        sent == SentBeforeAwait(a)
    IN  /\ ~Active(p)
        /\ nreq < MaxRequests
        /\ nreq' = nreq + 1
        /\ h' = [h EXCEPT ![p] =
                   IF Verify(a) = "ok" THEN [rec EXCEPT !.pc = "protect"]
                   ELSE [rec EXCEPT !.pc = "done", !.sent = sent,
                                    !.resp = Denied(sent[1])]]
        /\ UNCHANGED <<products, users, orders, credited, carts, now>>

\* req.user = await User.findById(decoded.id); then next() unless the first
\* two revisions find no user; next() runs authorize('admin') and the
\* handler's code up to its first await
ProtectFindById(p) ==
    LET rec == h[p]
        r == rec.req
        a == rec.auth
        user == users[a.caller]
        reqUser == IF user.exists THEN user ELSE NoDoc
        called == [rec EXCEPT !.nexts = 1, !.reqUser = reqUser]
        entered == [Begin(p, r) EXCEPT !.auth = a, !.nexts = 1, !.reqUser = reqUser,
                                       !.stock0 = rec.stock0, !.orders0 = rec.orders0,
                                       !.carts0 = rec.carts0]
    IN  /\ rec.pc = "protect"
        /\ h' = [h EXCEPT ![p] =
                   IF ~user.exists /\ a.mw # "mw3"
                   THEN [rec EXCEPT !.pc = "done", !.sent = <<401>>,
                                    !.resp = "Unauthorized"]
                   ELSE IF ~AdminRoute(r) THEN entered
                   ELSE IF ~user.exists
                   \* authorize of the third revision reads req.user.role of null
                   THEN Return(called, "ServerError")
                   ELSE IF ~Authorized(user, {"admin"}) THEN Return(called, "Forbidden")
                   ELSE entered]
        /\ UNCHANGED <<products, users, orders, nreq, credited, carts, now>>

\* ------------------------------------------------ user administration

\* const user = await User.findById(req.params.id) of PUT /auth/users/:id/role
\* and DELETE /auth/users/:id, and the checks that follow
FindTarget(p) ==
    LET rec == h[p]
        r == rec.req
        user == users[r.id]
    IN  /\ rec.pc = "findTarget"
        /\ h' = [h EXCEPT ![p] =
                   IF ~user.exists THEN Return(rec, "UserNotFound")
                   ELSE IF r.id = rec.auth.caller THEN Return(rec, "Forbidden")
                   ELSE [rec EXCEPT !.target = user,
                            !.pc = IF r.op = "role" THEN "saveRole" ELSE "deleteUser"]]
        /\ UNCHANGED <<products, users, orders, nreq, credited, carts, now>>

\* user.role = role; await user.save()
SaveRole(p) ==
    LET rec == h[p]
        r == rec.req
        modified == rec.target.role # r.role
        thrown == modified /\ ~users[r.id].exists
    IN  /\ rec.pc = "saveRole"
        /\ users' = IF modified /\ ~thrown THEN [users EXCEPT ![r.id].role = r.role]
                    ELSE users
        /\ h' = [h EXCEPT ![p] = Return(rec, IF thrown THEN "ServerError" ELSE "OK")]
        /\ UNCHANGED <<products, orders, nreq, credited, carts, now>>

\* await user.deleteOne()
DeleteUser(p) ==
    LET rec == h[p]
    IN  /\ rec.pc = "deleteUser"
        /\ users' = [users EXCEPT ![rec.req.id].exists = FALSE]
        /\ h' = [h EXCEPT ![p] = Return(rec, "OK")]
        /\ UNCHANGED <<products, orders, nreq, credited, carts, now>>

\* one step of a user administration handler in slot p
AdminStep(p) ==
    \/ FindTarget(p)
    \/ SaveRole(p)
    \/ DeleteUser(p)

\* ----------------------------------------------------------------- Init

InitStock(x) == IF x = "A" THEN MaxStock ELSE 1

Init ==
    /\ products = [x \in Products |->
                     [exists |-> TRUE, name |-> "n1",
                      price |-> IF x = "A" THEN 125 ELSE 1000,
                      stock |-> InitStock(x)]]
    /\ users = [u \in Users |->
                  [exists |-> u # "u3", address |-> IF u = "u1" THEN "street 1" ELSE "N/A",
                   role |-> "admin"]]
    /\ orders = <<>>
    /\ h = [p \in Procs |-> Idle]
    /\ nreq = 0
    /\ credited = <<>>
    /\ carts = <<[userId |-> "u1", items |-> <<>>]>>
    /\ now = 0

\* ------------------------------------------------------- specifications

Statuses == {"pending", "shipped", "cancelled", "returned", Undef}

\* requests of the sequential specification
SeqRequests ==
    PlaceRequests(cartItemsSets) \cup PlaceRequestsNoAddress({<<Line("A", 1)>>})
    \cup StatusRequests(Statuses) \cup UpdateRequests \cup DeleteRequests

\* requests of the concurrent specification
ConcRequests ==
    PlaceRequests({c \in cartItemsSets : Len(c) = 0 \/ (Len(c) = 1 /\ c[1].quantity = MaxQty)})
    \cup StatusRequests({"shipped", "cancelled"})
    \cup UpdateRequests \cup DeleteRequests

\* Requests are handled one after the other.
NextSeq ==
    \/ \E r \in SeqRequests : Start("r1", r)
    \/ Step("r1")

SpecSeq == Init /\ [][NextSeq]_vars

\* Requests are handled concurrently, interleaved at their awaits.
Next ==
    \/ \E p \in Procs : \E r \in ConcRequests : Start(p, r)
    \/ \E p \in Procs : Step(p)

Spec == Init /\ [][Next]_vars

\* requests of the cart specification
CartSpecRequests ==
    CartRequests("u1", {"add", "put", "remove", "clear"}, (0 - 1)..MaxQty)
    \cup PlaceRequestsNoAddress({<<>>, <<Line("A", 1)>>})
    \cup PlaceRequests({<<>>, <<Line("A", 1)>>, <<Line("A", 1), Line("B", 1)>>,
                         <<Line("A", 0)>>, <<Line("A", 0 - 1)>>})

\* Cart changes and placements, handled one after the other.
NextCart ==
    \/ \E r \in CartSpecRequests : Start("r1", r)
    \/ PlaceStep("r1")
    \/ CartStep("r1")

SpecCart == Init /\ [][NextCart]_vars

\* requests of the concurrent cart specification: u2 has no cart, u3 is not
\* registered
CartConcRequests ==
    CartRequests("u2", {"add"}, {1}) \cup CartRequests("u3", {"add"}, {1})
    \cup RegisterRequests("u3")

\* Cart additions and registrations, handled concurrently.
NextCartConc ==
    \/ \E p \in Procs : \E r \in CartConcRequests : Start(p, r)
    \/ \E p \in Procs : CartStep(p)
    \/ \E p \in Procs : RegisterStep(p)

SpecCartConc == Init /\ [][NextCartConc]_vars

\* Authenticated and unauthenticated requests to the administrator's routes,
\* and placements, handled one after the other.
NextAuth ==
    \/ \E r \in StatusRequests({"shipped", "cancelled"}) : \E a \in Auths :
          Arrive("r1", r, a)
    \/ \E r \in RoleRequests \cup DeleteUserRequests : \E a \in ValidAuths :
          Arrive("r1", r, a)
    \/ \E r \in PlaceRequests({<<Line("A", 1)>>}) : Start("r1", r)
    \/ ProtectFindById("r1")
    \/ PlaceStep("r1")
    \/ StatusStep("r1")
    \/ AdminStep("r1")

SpecAuth == Init /\ [][NextAuth]_vars

\* Role updates and user deletions by administrators, handled concurrently.
NextAdmin ==
    \/ \E p \in Procs : \E r \in RoleRequests \cup DeleteUserRequests :
          \E a \in AdminAuths : Arrive(p, r, a)
    \/ \E p \in Procs : ProtectFindById(p)
    \/ \E p \in Procs : AdminStep(p)

SpecAdmin == Init /\ [][NextAdmin]_vars

\* requests of the listing specification
ListSpecRequests ==
    ListRequests \cup PlaceRequestsNoAddress({<<Line("A", 1)>>})
    \cup PlaceRequests({<<Line("A", 1)>>})

\* Placements and listings, handled one after the other, while time passes.
NextList ==
    \/ \E r \in ListSpecRequests : Start("r1", r)
    \/ PlaceStep("r1")
    \/ ListOrders("r1")
    \/ Tick

SpecList == Init /\ [][NextList]_vars

\* requests of the restock specification: one-line placements of product A and
\* cancellations, both by the handlers of the restocking revision
RaceRequests ==
    {r \in PlaceRequests({<<Line("A", q)>> : q \in 1..MaxQty})
            \cup StatusRequests({"cancelled"}) : r.variant = "orders"}

\* Placements and cancellations, handled concurrently.
NextRace ==
    \/ \E p \in Procs : \E r \in RaceRequests : Start(p, r)
    \/ \E p \in Procs : PlaceStep(p)
    \/ \E p \in Procs : StatusStep(p)

SpecRace == Init /\ [][NextRace]_vars

TypeOK == nreq \in 0..MaxRequests

\* ------------------------------------------------------------- claims

Done(p, op) == h[p].pc = "done" /\ h[p].req.op = op

\* C1: in every reachable state, under every interleaving of placements and
\* status updates (cancellations included), every product's stock is >= 0.
C1_StockNeverNegative == \A x \in Products : products[x].stock >= 0

\* one order was cancelled and restocked, another placed since is pending
C1_Witness ==
    /\ \E o \in 1..Len(orders) : orders[o].status = "cancelled" /\ credited[o][1] > 0
    /\ \E o \in 1..Len(orders) : orders[o].status = "pending"

\* C2: two placements against the same product never both succeed when the
\* stock suffices for only one of them (here: the only two requests of the run
\* are one-line placements of the same product, and both answer 201).
C2_NoDoubleReservation ==
    \A x \in Products :
        (/\ nreq = 2
         /\ \A p \in Procs :
               /\ Done(p, "place") /\ h[p].resp = "Created"
               /\ Len(h[p].req.cartItems) = 1
               /\ h[p].req.cartItems[1].productId = x)
        => h["r1"].req.cartItems[1].quantity + h["r2"].req.cartItems[1].quantity
              <= InitStock(x)

\* C3: a placement that fails with NotFound or InsufficientStock leaves the
\* stock of every product as it was before the request.
C3_FailedPlacementKeepsStock ==
    (Done("r1", "place") /\ h["r1"].resp \in {"NotFound", "InsufficientStock"})
    => \A x \in Products : products[x].stock = h["r1"].stock0[x]

\* C4: a placement that answers with a failure persists no order: the stored
\* orders are the same after the failed request as before it.
C4_FailedPlacementStoresNoOrder ==
    (Done("r1", "place") /\ Code(h["r1"].resp) \in {400, 404})
    => orders = h["r1"].orders0

\* a placement failed on its second line, after the first line was reserved,
\* while an earlier order is stored
C4_Witness ==
    /\ Done("r1", "place") /\ h["r1"].resp = "InsufficientStock" /\ h["r1"].i = 2
    /\ Len(orders) > 0

\* C5: a successful status update to 'cancelled' of a non-cancelled order adds
\* each line's quantity to its (existing) product's stock and leaves the order
\* cancelled; on an already cancelled order it changes no stock; no line is
\* ever restocked twice.
C5_CancelRestocksOnce ==
    /\ (Done("r1", "status") /\ h["r1"].req.status = "cancelled" /\ h["r1"].resp = "OK")
       => /\ orders[h["r1"].req.id].status = "cancelled"
          /\ \A x \in Products :
                products[x].stock =
                    h["r1"].stock0[x]
                    + (IF h["r1"].order.status # "cancelled" /\ products[x].exists
                       THEN QtyOf(h["r1"].order.items, x) ELSE 0)
    /\ \A o \in 1..Len(orders) : \A l \in 1..Len(credited[o]) : credited[o][l] <= 1

\* C6: two status updates to 'cancelled' of the same non-cancelled order,
\* handled concurrently by the restocking handler, restock the order once: after
\* one placement and the two cancellations the stock is the initial stock.
C6_ConcurrentCancelRestocksOnce ==
    (/\ nreq = 3 /\ Len(orders) = 1
     /\ \A p \in Procs :
           /\ Done(p, "status") /\ h[p].resp = "OK"
           /\ h[p].req = [op |-> "status", variant |-> "orders", id |-> 1,
                          status |-> "cancelled"])
    => \A x \in Products : products[x].stock = InitStock(x)

\* C7: 'cancelled' is terminal: an order that is cancelled is cancelled in the
\* next state, whatever request is handled.
C7_CancelledIsTerminal ==
    [][\A o \in 1..Len(orders) :
          orders[o].status = "cancelled" => orders'[o].status = "cancelled"]_vars

C9_ItemsImmutable ==
    /\ [](\A o \in 1..Len(orders) : Len(orders[o].items) > 0)
    /\ [][/\ Len(orders') >= Len(orders)
          /\ \A o \in 1..Len(orders) :
                /\ orders'[o].items = orders[o].items
                /\ orders'[o].totalAmount = orders[o].totalAmount]_vars

\* a cancelled order one of whose products was renamed and repriced, or deleted,
\* after the placement
C9_Witness ==
    \E o \in 1..Len(orders) :
        /\ orders[o].status = "cancelled"
        /\ \/ ~products[orders[o].items[1].productId].exists
           \/ products[orders[o].items[1].productId].name # orders[o].items[1].name

\* C10: an order placed and then cancelled, with no request in between, leaves
\* every product's stock as it was before the placement (here: the placement and
\* the cancellation are the first two requests of the run).
C10_PlaceThenCancelRoundTrip ==
    (/\ nreq = 2 /\ Len(orders) = 1
     /\ Done("r1", "status") /\ h["r1"].resp = "OK"
     /\ h["r1"].req.id = 1 /\ h["r1"].req.status = "cancelled")
    => \A x \in Products : products[x].stock = InitStock(x)

\* C11: a placement that answers 500 because a storage operation threw (a
\* product save, or the save of the new order) leaves every product's stock as
\* it was before the request, and stores no order.
C11_StorageFailureRestocks ==
    (Done("r1", "place") /\ h["r1"].resp = "ServerError")
    => /\ \A x \in Products : products[x].stock = h["r1"].stock0[x]
       /\ orders = h["r1"].orders0

\* C12: a placement whose line set is empty is rejected with EmptyCart (the
\* single 400 of POST /orders for missing fields counts as that rejection), and
\* leaves the stock of every product, the stored orders and the carts unchanged.
C12_EmptyCartRejected ==
    (Done("r1", "place") /\ EmptyCart(h["r1"].req.cartItems))
    => /\ h["r1"].resp \in {"EmptyCart", "MissingFields"}
       /\ \A x \in Products : products[x].stock = h["r1"].stock0[x]
       /\ orders = h["r1"].orders0
       /\ carts = h["r1"].carts0

\* C13: a placement with lines, no shippingAddress in the request and an owner
\* whose registered address is missing or 'N/A' is rejected with
\* MissingShippingAddress (or the single 400 of POST /orders); no stock changes
\* and no order is stored.
C13_MissingAddressRejected ==
    (/\ Done("r1", "place")
     /\ ~EmptyCart(h["r1"].req.cartItems)
     /\ h["r1"].req.shippingAddress = Undef
     /\ MissingShippingAddress(users[h["r1"].req.user].address))
    => /\ h["r1"].resp \in {"MissingShippingAddress", "MissingFields"}
       /\ \A x \in Products : products[x].stock = h["r1"].stock0[x]
       /\ orders = h["r1"].orders0

\* C14: the shippingAddress stored on the order a placement created is the
\* request's shippingAddress when the request carries one, and the owner's
\* registered address when it carries none.
C14_ShippingAddressFromRequest ==
    (Done("r1", "place") /\ h["r1"].resp = "Created")
    => orders[Len(orders)].shippingAddress =
          IF h["r1"].req.shippingAddress # Undef THEN h["r1"].req.shippingAddress
          ELSE users[h["r1"].req.user].address

\* C15: after a successful placement the cart that GET /api/cart returns for
\* the placing owner is empty.
C15_CartEmptyAfterPlacement ==
    (Done("r1", "place") /\ h["r1"].resp = "Created")
    => GetCart(h["r1"].req.user) = <<>>

\* C16: the order a successful placement created has status 'pending' and one
\* line snapshot per input line, in input order, with the line's productId and
\* quantity and the product's stored name and price.
C16_OrderSnapshotsInput ==
    (Done("r1", "place") /\ h["r1"].resp = "Created")
    => LET o == orders[Len(orders)]
           c == h["r1"].req.cartItems
       IN  /\ o.status = "pending"
           /\ Len(o.items) = Len(c)
           /\ \A k \in 1..Len(c) :
                 o.items[k] = [productId |-> c[k].productId,
                               quantity |-> c[k].quantity,
                               name |-> products[c[k].productId].name,
                               price |-> products[c[k].productId].price]

\* a two-line order was created after product A had been renamed and repriced
C16_Witness ==
    /\ Done("r1", "place") /\ h["r1"].resp = "Created"
    /\ Len(h["r1"].req.cartItems) = 2
    /\ products["A"].name = "n2"
    /\ orders[Len(orders)].items[1].name = "n2"

\* C17: a status update of a stored order whose requested status is none of
\* pending, confirmed, shipped, delivered, cancelled (a missing status
\* included) answers InvalidStatus and leaves the stored orders and every
\* product's stock unchanged.
C17_InvalidStatusRejected ==
    (/\ Done("r1", "status")
     /\ h["r1"].req.id <= Len(h["r1"].orders0)
     /\ h["r1"].req.status \notin
           {"pending", "confirmed", "shipped", "delivered", "cancelled"})
    => /\ h["r1"].resp = "InvalidStatus"
       /\ orders = h["r1"].orders0
       /\ \A x \in Products : products[x].stock = h["r1"].stock0[x]

\* a status update without a status was rejected on a cancelled order
C17_Witness ==
    /\ Done("r1", "status") /\ h["r1"].resp = "InvalidStatus"
    /\ h["r1"].req.status = Undef
    /\ h["r1"].req.id <= Len(orders)
    /\ orders[h["r1"].req.id].status = "cancelled"

activeStatuses == {"pending", "confirmed", "shipped", "delivered"}

\* C18: a status update of an order whose status is one of pending, confirmed,
\* shipped, delivered to any of these four succeeds and leaves the order with
\* the requested status, backwards moves included; requesting the current
\* status is accepted and changes nothing.
C18_ActiveStatusesAnyOrder ==
    (/\ Done("r1", "status")
     /\ h["r1"].req.id <= Len(h["r1"].orders0)
     /\ h["r1"].orders0[h["r1"].req.id].status \in activeStatuses
     /\ h["r1"].req.status \in activeStatuses)
    => /\ h["r1"].resp = "OK"
       /\ orders[h["r1"].req.id].status = h["r1"].req.status
       /\ h["r1"].orders0[h["r1"].req.id].status = h["r1"].req.status
             => orders = h["r1"].orders0

\* a shipped order was moved back to pending
C18_Witness ==
    /\ Done("r1", "status") /\ h["r1"].resp = "OK"
    /\ h["r1"].req.id <= Len(h["r1"].orders0)
    /\ h["r1"].orders0[h["r1"].req.id].status = "shipped"
    /\ h["r1"].req.status = "pending"
    /\ orders[h["r1"].req.id].status = "pending"

\* C19: the cancellation of a non-cancelled order one of whose products no
\* longer exists succeeds: the order becomes 'cancelled' and every product that
\* still exists is restocked by the order's quantity of it.
C19_CancelSkipsMissingProduct ==
    (/\ Done("r1", "status") /\ h["r1"].req.status = "cancelled"
     /\ h["r1"].req.id <= Len(h["r1"].orders0)
     /\ h["r1"].orders0[h["r1"].req.id].status # "cancelled"
     /\ \E k \in 1..Len(orders[h["r1"].req.id].items) :
           ~products[orders[h["r1"].req.id].items[k].productId].exists)
    => /\ h["r1"].resp = "OK"
       /\ orders[h["r1"].req.id].status = "cancelled"
       /\ \A x \in Products :
             products[x].exists =>
                products[x].stock =
                    h["r1"].stock0[x] + QtyOf(orders[h["r1"].req.id].items, x)

\* C20: a cancellation (restock of r units of A) and a placement (reservation
\* of q units of A) that follow one earlier placement and both succeed leave
\* A's stock at its value before them + r - q, however they interleave: with
\* the first order cancelled, the stock is the initial stock less the quantity
\* of the second order.
C20_RestockAtomic ==
    \A c \in Procs : \A p \in Procs :
        (/\ nreq = 3 /\ Len(orders) = 2
         /\ Done(c, "status") /\ h[c].resp = "OK"
         /\ h[c].req.id = 1 /\ h[c].order.status = "pending"
         /\ Done(p, "place") /\ h[p].resp = "Created"
         /\ h[p].stock0["A"] < InitStock("A"))
        => products["A"].stock = InitStock("A") - QtyOf(orders[2].items, "A")

\* C22: a placement whose line set is empty and for which no usable shipping
\* address is available is rejected for its empty line set (EmptyCart, or the
\* single 400 of POST /orders), not with MissingShippingAddress.
C22_EmptyCartBeforeAddress ==
    (/\ Done("r1", "place")
     /\ EmptyCart(h["r1"].req.cartItems)
     /\ h["r1"].req.shippingAddress = Undef
     /\ MissingShippingAddress(users[h["r1"].req.user].address))
    => h["r1"].resp # "MissingShippingAddress"

\* C23: a status update changes no product's stock unless it succeeds in
\* moving a stored, non-cancelled order to 'cancelled'.
C23_OnlyFirstCancelChangesStock ==
    (/\ Done("r1", "status")
     /\ ~(/\ h["r1"].resp = "OK"
           /\ h["r1"].req.status = "cancelled"
           /\ h["r1"].req.id <= Len(h["r1"].orders0)
           /\ h["r1"].orders0[h["r1"].req.id].status # "cancelled"))
    => \A x \in Products : products[x].stock = h["r1"].stock0[x]

\* an order cancelled and restocked earlier was asked to be cancelled again
C23_Witness ==
    /\ Done("r1", "status") /\ h["r1"].resp = "OK"
    /\ h["r1"].req.variant = "orders" /\ h["r1"].req.status = "cancelled"
    /\ h["r1"].req.id <= Len(h["r1"].orders0)
    /\ h["r1"].orders0[h["r1"].req.id].status = "cancelled"
    /\ credited[h["r1"].req.id][1] = 1

\* sum over the stored, non-cancelled orders of their quantity of product pid
RECURSIVE Held(_, _)
Held(os, pid) ==
    IF os = <<>> THEN 0
    ELSE (IF Head(os).status # "cancelled" THEN QtyOf(Head(os).items, pid) ELSE 0)
         + Held(Tail(os), pid)

\* C24: whenever no request is in flight, after placements and status updates
\* only, every product's stock plus the quantities of it held by the stored
\* non-cancelled orders is the product's initial stock.
C24_StockConservation ==
    (\A p \in Procs : ~Active(p))
    => \A x \in Products : products[x].stock + Held(orders, x) = InitStock(x)

\* C25: a placement, successful or failed, never leaves a product with more
\* stock than before the request, and no stored order has a line of quantity
\* below 1.
C25_PlacementNeverAddsStock ==
    /\ Done("r1", "place")
          => \A x \in Products : products[x].stock <= h["r1"].stock0[x]
    /\ \A o \in 1..Len(orders) : \A k \in 1..Len(orders[o].items) :
          orders[o].items[k].quantity >= 1

\* C21: a caller's listing holds exactly the stored orders of the caller, the
\* administrator's listing all stored orders, each once; an order created at a
\* later instant stands before every order created at an earlier one.
C21_ListingNewestFirst ==
    Done("r1", "list")
    => LET l == h["r1"].listing
           r == h["r1"].req
       IN  /\ {l[i] : i \in 1..Len(l)} =
                 {o \in 1..Len(orders) : r.admin \/ orders[o].userId = r.user}
           /\ \A i \in 1..Len(l) : \A j \in (i + 1)..Len(l) :
                 /\ l[i] # l[j]
                 /\ orders[l[i]].createdAt >= orders[l[j]].createdAt
                 /\ l[i] > l[j] \/ orders[l[i]].createdAt = orders[l[j]].createdAt

\* a caller listed its own two orders, created at different instants, while
\* the listing of all orders would hold more
C21_Witness ==
    /\ Done("r1", "list") /\ ~h["r1"].req.admin
    /\ Len(h["r1"].listing) = 2
    /\ orders[h["r1"].listing[1]].createdAt > orders[h["r1"].listing[2]].createdAt

\* C26: every line stored in a cart has a quantity above 0, and no cart holds
\* two lines of the same product.
C26_CartLinesPositiveAndDistinct ==
    \A c \in 1..Len(carts) :
        \A k \in 1..Len(carts[c].items) :
            /\ carts[c].items[k].quantity > 0
            /\ \A j \in 1..Len(carts[c].items) :
                  j # k => carts[c].items[j].productId # carts[c].items[k].productId

\* C27: no owner has two carts, and a user whose registration was answered 201
\* has exactly one.
C27_OneCartPerOwner ==
    /\ \A u \in Users : Cardinality(CartsOf(u)) <= 1
    /\ \A p \in Procs :
          (Done(p, "register") /\ h[p].resp = "Created")
          => Cardinality(CartsOf(h[p].req.user)) = 1

\* two additions of an owner without a cart both read 'no cart' and both
\* saved a new cart: one was stored, the other rejected
C27_Witness ==
    /\ \A p \in Procs :
          /\ Done(p, "cart") /\ h[p].req.user = "u2" /\ h[p].cartId = 0
          /\ h[p].resp \in {"OK", "ServerError"}
    /\ \E p \in Procs : h[p].resp = "ServerError"

C29_ProtectOneOutcome ==
    \A p \in Procs :
        (h[p].auth.mw # "none" /\ h[p].pc # "protect") =>
            \/ h[p].nexts = 1 /\ h[p].sent = <<>> /\ h[p].reqUser.exists
            \/ h[p].nexts = 0 /\ Len(h[p].sent) = 1

\* C30: some stored user has role 'admin'.
C30_SomeAdminRemains ==
    \E u \in Users : users[u].exists /\ users[u].role = "admin"

====
